---------------------------- MODULE Spec2Model ----------------------------
(***************************************************************************)
(* The routing core of the campus navigator: the generic weighted graph    *)
(* (Graph.h), the path value type (Path.cpp), the speed models             *)
(* (WalkingMode.h, CyclingMode.h) and the router (Navigator.cpp) with its  *)
(* Dijkstra search.                                                        *)
(*                                                                         *)
(* A Location object is identified by a positive integer.  The integer     *)
(* order stands for the order of the pointers, which is the order of the   *)
(* std::map keys and the tie-break of the priority queue.  Null is the     *)
(* null pointer.  Distances and weights are natural numbers; a time is     *)
(* counted in thousandths of a minute, so that the two speed models are    *)
(* exact.                                                                  *)
(***************************************************************************)
EXTENDS Integers, Sequences, FiniteSets

\* ------------------------------------------------------------------------
\* Bounds of the model
\* ------------------------------------------------------------------------
NumLocations == 3      \* Location objects created by the caller: 1..NumLocations
MaxWeight == 2         \* edge weights are drawn from 0..MaxWeight
MaxConnections == 3    \* connections handed to initializeGraph in SpecSearch
MaxViaConnections == 2 \* connections handed to initializeGraph in SpecVia
MaxNavConnections == 1 \* connections handed to initializeGraph in Spec
MaxVias == 2           \* length of a via list
MaxEdges == 3          \* SpecGraph: edges stored in the graph
MaxGraphWeight == 1    \* SpecGraph: edge weights are drawn from 0..MaxGraphWeight

Null == 0
Locations == 1..NumLocations
Weights == 0..MaxWeight

\* ------------------------------------------------------------------------
\* Generic helpers
\* ------------------------------------------------------------------------
Abs(x) == IF x < 0 THEN -x ELSE x

Last(s) == s[Len(s)]

Range(s) == {s[i] : i \in 1..Len(s)}

RECURSIVE SeqsUpTo(_, _)
\* every sequence over S of length at most n
SeqsUpTo(S, n) ==
    IF n = 0 THEN {<<>>}
    ELSE LET shorter == SeqsUpTo(S, n - 1)
         IN  shorter \cup {Append(s, x) : s \in {t \in shorter : Len(t) = n - 1}, x \in S}

\* ------------------------------------------------------------------------
\* Location (Location.cpp)
\* ------------------------------------------------------------------------
\* Every Location object of the campus has its own id (main.cpp numbers
\* them as it creates them).  Twin is one more Location object, constructed
\* with the id of the first one: the id is a constructor argument, and
\* nothing keeps two objects from carrying the same id.
Twin == NumLocations + 1

getId(loc) == IF loc = Twin THEN 0 ELSE loc - 1

\* Two display names are shared round-robin, so that two locations can
\* carry the same name; 0 is the empty string.
NumNames == 2
EmptyName == 0
UnknownName == NumNames + 1
getName(loc) == ((loc - 1) % NumNames) + 1

\* The locations of the model lie on one meridian, location k at k steps of
\* latitude, one step being 5 m on the ground.  For two points of equal
\* longitude the haversine formula gives R * |lat1 - lat2|.
distanceTo(a, b) == 5 * Abs(a - b)

\* ------------------------------------------------------------------------
\* Graph<T> (Graph.h): adjacencyList_ is a function from the nodes to the
\* sequence of their outgoing edges, in insertion order.
\* ------------------------------------------------------------------------
Edge(dest, w) == [destination |-> dest, weight |-> w]

EmptyGraph == [n \in {} |-> <<>>]

hasNode(g, node) == node \in DOMAIN g

\* addNode without the find: the edge list is reset every time
addNode_Reset(g, node) ==
    [n \in DOMAIN g \cup {node} |-> IF n = node THEN <<>> ELSE g[n]]

addNode(g, node) ==
    IF node \in DOMAIN g THEN g
    ELSE [n \in DOMAIN g \cup {node} |-> IF n = node THEN <<>> ELSE g[n]]

addEdge(g, from, to, weight) ==
    LET g2 == addNode(addNode(g, from), to)
    IN  [g2 EXCEPT ![from] = Append(@, Edge(to, weight))]

addUndirectedEdge_OneWay(g, node1, node2, weight) ==
    addNode(addEdge(g, node1, node2, weight), node2)

addUndirectedEdge(g, node1, node2, weight) ==
    addEdge(addEdge(g, node1, node2, weight), node2, node1, weight)

getNeighbors(g, node) == IF node \in DOMAIN g THEN g[node] ELSE <<>>

hasEdge(g, from, to) ==
    /\ from \in DOMAIN g
    /\ \E i \in 1..Len(g[from]) : g[from][i].destination = to

\* getEdgeWeight that keeps scanning and returns the last match
getEdgeWeight_Last(g, from, to) ==
    IF from \notin DOMAIN g THEN [status |-> "runtime_error", value |-> 0]
    ELSE LET hits == {i \in 1..Len(g[from]) : g[from][i].destination = to}
         IN  IF hits = {} THEN [status |-> "runtime_error", value |-> 0]
             ELSE LET last == CHOOSE i \in hits : \A j \in hits : j <= i
                  IN  [status |-> "ok", value |-> g[from][last].weight]

\* the first matching edge's weight; "runtime_error" when there is none
getEdgeWeight(g, from, to) ==
    IF from \notin DOMAIN g THEN [status |-> "runtime_error", value |-> 0]
    ELSE LET hits == {i \in 1..Len(g[from]) : g[from][i].destination = to}
         IN  IF hits = {} THEN [status |-> "runtime_error", value |-> 0]
             ELSE LET first == CHOOSE i \in hits : \A j \in hits : i <= j
                  IN  [status |-> "ok", value |-> g[from][first].weight]

clear(g) == EmptyGraph

\* removeNode that erases the node and leaves the edges that lead to it
removeNode_EraseOnly(g, node) == [n \in DOMAIN g \ {node} |-> g[n]]

removeNode(g, node) ==
    [n \in DOMAIN g \ {node} |-> SelectSeq(g[n], LAMBDA e : e.destination # node)]

removeEdge(g, from, to) ==
    IF from \in DOMAIN g
    THEN [g EXCEPT ![from] = SelectSeq(@, LAMBDA e : e.destination # to)]
    ELSE g

\* ------------------------------------------------------------------------
\* Path (Path.cpp): locations_ and the cached totalDistance_
\* ------------------------------------------------------------------------
Path == [locations |-> <<>>, totalDistance |-> 0]

PathFrom(start) ==
    [locations |-> IF start # Null THEN <<start>> ELSE <<>>, totalDistance |-> 0]

empty(path) == path.locations = <<>>

\* addLocation that appends and leaves the running total alone
addLocation_NoDistance(path, loc) ==
    [path EXCEPT !.locations = Append(@, loc)]

\* addLocation on a non-null location (a null one throws invalid_argument)
addLocation(path, loc) ==
    [locations |-> Append(path.locations, loc),
     totalDistance |-> IF path.locations # <<>>
                       THEN path.totalDistance + distanceTo(Last(path.locations), loc)
                       ELSE path.totalDistance]

\* Path::addLocation with its null check: the outcome and the path after it
tryAddLocation(path, loc) ==
    IF loc = Null
    THEN [status |-> "invalid_argument", path |-> path]
    ELSE [status |-> "ok", path |-> addLocation(path, loc)]

setTotalDistance_Ignored(path, dist) == path

\* setTotalDistance on a distance >= 0 (a negative one throws invalid_argument)
setTotalDistance(path, dist) == [path EXCEPT !.totalDistance = dist]

\* setTotalDistance that stores whatever it is given
trySetTotalDistance_NoCheck(path, dist) ==
    [status |-> "ok", path |-> setTotalDistance(path, dist)]

\* Path::setTotalDistance with its sign check
trySetTotalDistance(path, dist) ==
    IF dist < 0
    THEN [status |-> "invalid_argument", path |-> path]
    ELSE [status |-> "ok", path |-> setTotalDistance(path, dist)]

RECURSIVE AddAll(_, _)
\* the loops of operator+ : addLocation for each element of locs in turn
AddAll(path, locs) ==
    IF locs = <<>> THEN path
    ELSE AddAll(IF empty(path)
                THEN [path EXCEPT !.locations = <<Head(locs)>>]
                ELSE addLocation(path, Head(locs)),
                Tail(locs))

RECURSIVE AddEach(_, _)
AddEach(path, locs) ==
    IF locs = <<>> THEN path ELSE AddEach(addLocation(path, Head(locs)), Tail(locs))

PathPlus_KeepJoin(a, b) == AddEach(AddAll(Path, a.locations), b.locations)

PathPlus_AlwaysSkip(a, b) ==
    AddEach(AddAll(Path, a.locations), SubSeq(b.locations, 2, Len(b.locations)))

\* operator+ that compares the two join nodes by address
PathPlus_ComparePointers(a, b) ==
    LET combined == AddAll(Path, a.locations)
        startIndex == IF /\ ~empty(combined)
                         /\ ~empty(b)
                         /\ Last(combined.locations) = Head(b.locations)
                      THEN 1 ELSE 0
    IN  AddEach(combined, SubSeq(b.locations, startIndex + 1, Len(b.locations)))

\* operator+ that starts from a copy of the left operand
PathPlus_CarryTotal(a, b) ==
    LET startIndex == IF /\ ~empty(a)
                         /\ ~empty(b)
                         /\ getId(Last(a.locations)) = getId(Head(b.locations))
                      THEN 1 ELSE 0
    IN  AddEach(a, SubSeq(b.locations, startIndex + 1, Len(b.locations)))

\* Path::operator+
PathPlus(a, b) ==
    LET combined == AddAll(Path, a.locations)
        startIndex == IF /\ ~empty(combined)
                         /\ ~empty(b)
                         /\ getId(Last(combined.locations)) = getId(Head(b.locations))
                      THEN 1 ELSE 0
    IN  AddEach(combined, SubSeq(b.locations, startIndex + 1, Len(b.locations)))

\* ------------------------------------------------------------------------
\* NavigationMode (NavigationMode.h, WalkingMode.h, CyclingMode.h)
\* ------------------------------------------------------------------------
WalkingSpeed == 5
CyclingSpeed == 15
Modes == {"Walking", "Cycling"}
NullMode == "nullptr"

averageSpeed(mode) == IF mode = "Walking" THEN WalkingSpeed ELSE CyclingSpeed

\* calculateTime that divides by the speed in km/h, without the conversion
\* to metres per minute
calculateTime_PerHour(mode, distanceMeters) ==
    (distanceMeters * 1000) \div averageSpeed(mode)

\* distanceMeters / (averageSpeed_ * 1000 / 60) minutes, in 1/1000 minute
calculateTime(mode, distanceMeters) == (distanceMeters * 60) \div averageSpeed(mode)

\* ------------------------------------------------------------------------
\* Navigator (Navigator.cpp): the Dijkstra search
\* ------------------------------------------------------------------------
\* std::numeric_limits<double>::infinity(), kept apart from every distance
INF == -1

\* a < b on doubles, b possibly infinite (a is always finite here)
LessThan(a, b) == IF b = INF THEN a # INF ELSE a # INF /\ a < b

\* std::map: m[k] of an absent key is the value-initialised element
MapGet(m, k, dflt) == IF k \in DOMAIN m THEN m[k] ELSE dflt

MapPut(m, k, v) == [x \in DOMAIN m \cup {k} |-> IF x = k THEN v ELSE m[x]]

EmptyMap == [x \in {} |-> 0]

\* std::greater on pair<double, Location*>: by distance, then by pointer
PairLess(p, q) == p[1] < q[1] \/ (p[1] = q[1] /\ p[2] < q[2])

\* the index of the entry that pq.top() returns
\* a queue that gives back its oldest entry
TopIndex_Fifo(pq) == 1

\* std::priority_queue with std::greater: the least pair is on top
TopIndex(pq) ==
    CHOOSE i \in 1..Len(pq) :
        \A j \in 1..Len(pq) : /\ ~PairLess(pq[j], pq[i])
                              /\ (pq[j] = pq[i] => i <= j)

RemoveAt(s, i) == SubSeq(s, 1, i - 1) \o SubSeq(s, i + 1, Len(s))

\* an initialisation that leaves the start at infinity
InitSearch_NoStartZero(allLocs, start) ==
    [distances |-> [l \in Range(allLocs) |-> INF],
     previous  |-> EmptyMap,
     visited   |-> [l \in Range(allLocs) |-> FALSE],
     pq        |-> << <<0, start>> >>,
     done      |-> FALSE]

\* Steps 1 and 2: every location at infinity and unvisited, the start at 0
InitSearch(allLocs, start) ==
    [distances |-> MapPut([l \in Range(allLocs) |-> INF], start, 0),
     previous  |-> EmptyMap,
     visited   |-> [l \in Range(allLocs) |-> FALSE],
     pq        |-> << <<0, start>> >>,
     done      |-> FALSE]

RelaxEdge_FirstOnly(st, current, currentDist, edge) ==
    LET neighbor == edge.destination
        tentativeDist == currentDist + edge.weight
    IN  IF MapGet(st.distances, neighbor, 0) = INF
        THEN [st EXCEPT !.distances = MapPut(@, neighbor, tentativeDist),
                        !.previous  = MapPut(@, neighbor, current),
                        !.pq        = Append(@, <<tentativeDist, neighbor>>)]
        ELSE st

\* a relaxation that records no predecessor
RelaxEdge_NoPrevious(st, current, currentDist, edge) ==
    LET neighbor == edge.destination
        tentativeDist == currentDist + edge.weight
    IN  IF LessThan(tentativeDist, MapGet(st.distances, neighbor, 0))
        THEN [st EXCEPT !.distances = MapPut(@, neighbor, tentativeDist),
                        !.pq        = Append(@, <<tentativeDist, neighbor>>)]
        ELSE st

\* the body of the loop over the neighbours (lines 136-149)
RelaxEdge(st, current, currentDist, edge) ==
    LET neighbor == edge.destination
        tentativeDist == currentDist + edge.weight
    IN  IF LessThan(tentativeDist, MapGet(st.distances, neighbor, 0))
        THEN [st EXCEPT !.distances = MapPut(@, neighbor, tentativeDist),
                        !.previous  = MapPut(@, neighbor, current),
                        !.pq        = Append(@, <<tentativeDist, neighbor>>)]
        ELSE st

RECURSIVE RelaxAll(_, _, _, _)
RelaxAll(st, current, currentDist, edges) ==
    IF edges = <<>> THEN st
    ELSE RelaxAll(RelaxEdge(st, current, currentDist, Head(edges)),
                  current, currentDist, Tail(edges))

\* an iteration that leaves a stale entry on the queue
DijkstraStep_KeepStale(g, st, end) ==
    LET top == st.pq[TopIndex(st.pq)]
        current == top[2]
        currentDist == top[1]
        popped == [st EXCEPT !.pq = RemoveAt(@, TopIndex(st.pq))]
    IN  IF MapGet(st.visited, current, FALSE) THEN st
        ELSE LET marked == [popped EXCEPT !.visited = MapPut(@, current, TRUE)]
             IN  IF current = end THEN [marked EXCEPT !.done = TRUE]
                 ELSE RelaxAll(marked, current, currentDist, getNeighbors(g, current))

\* an iteration that never marks the node it takes as visited
DijkstraStep_NoMark(g, st, end) ==
    LET top == st.pq[TopIndex(st.pq)]
        current == top[2]
        currentDist == top[1]
        popped == [st EXCEPT !.pq = RemoveAt(@, TopIndex(st.pq))]
    IN  IF MapGet(st.visited, current, FALSE) THEN popped
        ELSE IF current = end THEN [popped EXCEPT !.done = TRUE]
             ELSE RelaxAll(popped, current, currentDist, getNeighbors(g, current))

\* one iteration of the main loop (lines 116-150)
DijkstraStep(g, st, end) ==
    LET top == st.pq[TopIndex(st.pq)]
        current == top[2]
        currentDist == top[1]
        popped == [st EXCEPT !.pq = RemoveAt(@, TopIndex(st.pq))]
    IN  IF MapGet(st.visited, current, FALSE) THEN popped
        ELSE LET marked == [popped EXCEPT !.visited = MapPut(@, current, TRUE)]
             IN  IF current = end THEN [marked EXCEPT !.done = TRUE]
                 ELSE RelaxAll(marked, current, currentDist, getNeighbors(g, current))

RECURSIVE DijkstraLoop(_, _, _)
DijkstraLoop(g, st, end) ==
    IF st.pq = <<>> \/ st.done THEN st
    ELSE DijkstraLoop(g, DijkstraStep(g, st, end), end)

\* What a call gives back: the exception it throws or the path it returns.
Thrown(exception, message, n) ==
    [status |-> exception, what |-> message, path |-> Path, searches |-> n]

Returned(path, n) ==
    [status |-> "ok", what |-> "", path |-> path, searches |-> n]

RECURSIVE Backtrack(_, _, _, _, _)
\* the while loop of reconstructPath; fuel bounds a walk that would not end
Backtrack(current, start, previous, reversePath, fuel) ==
    IF current = start THEN [status |-> "ok", locs |-> reversePath]
    ELSE IF fuel = 0 THEN [status |-> "diverges", locs |-> reversePath]
    ELSE IF current \notin DOMAIN previous
         THEN [status |-> "broken", locs |-> Append(reversePath, current)]
         ELSE Backtrack(previous[current], start, previous,
                        Append(reversePath, current), fuel - 1)

Reverse(s) == [i \in 1..Len(s) |-> s[Len(s) + 1 - i]]

RECURSIVE BuildPath(_, _)
\* lines 188-194
BuildPath(path, locs) ==
    IF locs = <<>> THEN path
    ELSE BuildPath(IF empty(path) THEN PathFrom(Head(locs))
                   ELSE addLocation(path, Head(locs)),
                   Tail(locs))

reconstructPath(start, end, previous, distances) ==
    LET walk == Backtrack(end, start, previous, <<>>, Cardinality(DOMAIN previous) + 1)
    IN  IF walk.status = "diverges" THEN Thrown("diverges", "", 1)
        ELSE IF walk.status = "broken"
        THEN Thrown("PathNotFoundException", "Path reconstruction failed", 1)
        ELSE Returned(setTotalDistance(
                          BuildPath(Path, Reverse(Append(walk.locs, start))),
                          distances[end]), 1)

dijkstraShortestPath_NoCheck(allLocs, g, start, end) ==
    LET fin == DijkstraLoop(g, InitSearch(allLocs, start), end)
    IN  reconstructPath(start, end, fin.previous, fin.distances)

dijkstraShortestPath(allLocs, g, start, end) ==
    LET fin == DijkstraLoop(g, InitSearch(allLocs, start), end)
    IN  IF MapGet(fin.distances, end, 0) = INF
        THEN Thrown("PathNotFoundException", "No path exists", 1)
        ELSE reconstructPath(start, end, fin.previous,
                             MapPut(fin.distances, end, MapGet(fin.distances, end, 0)))

findPath_Unchecked(allLocs, g, start, end) ==
    dijkstraShortestPath(allLocs, g, start, end)

\* Navigator::findPath(Location*, Location*): what it throws or returns
findPath(allLocs, g, start, end) ==
    IF start = Null \/ end = Null
    THEN Thrown("InvalidLocationException", "Start or end location is null", 0)
    ELSE IF ~hasNode(g, start) \/ ~hasNode(g, end)
    THEN Thrown("InvalidLocationException", "Location not found in graph", 0)
    ELSE dijkstraShortestPath(allLocs, g, start, end)

\* getLocationByName that keeps the last location of that name
getLocationByName_Last(allLocs, name) ==
    LET hits == {i \in 1..Len(allLocs) : getName(allLocs[i]) = name}
    IN  IF hits = {} THEN Null
        ELSE allLocs[CHOOSE i \in hits : \A j \in hits : j <= i]

\* Navigator::getLocationByName: the first location of that name, or Null
\* when the scan ends and InvalidLocationException is thrown
getLocationByName(allLocs, name) ==
    LET hits == {i \in 1..Len(allLocs) : getName(allLocs[i]) = name}
    IN  IF hits = {} THEN Null
        ELSE allLocs[CHOOSE i \in hits : \A j \in hits : i <= j]

\* Navigator::findPath(string, string)
findPathByName(allLocs, g, startName, endName) ==
    IF startName = EmptyName \/ endName = EmptyName
    THEN Thrown("InvalidLocationException", "Location names cannot be empty", 0)
    ELSE IF getLocationByName(allLocs, startName) = Null
            \/ getLocationByName(allLocs, endName) = Null
    THEN Thrown("InvalidLocationException", "Location not found", 0)
    ELSE findPath(allLocs, g, getLocationByName(allLocs, startName),
                  getLocationByName(allLocs, endName))

\* ------------------------------------------------------------------------
\* Navigator::findPath(start, end, vias).  Navigator.h declares it; its
\* body is not in the sources, so it follows the specification, section 4.4:
\* a via equal to an endpoint is refused, then the legs start -> via1 -> ...
\* -> end are searched like two-argument calls, stitched with operator+ and
\* the total is set to the sum of the legs' totals.
\* ------------------------------------------------------------------------
Stops(start, end, vias) == <<start>> \o vias \o <<end>>

RECURSIVE StitchLegs(_, _, _, _, _, _)
\* legs from stops[i] on; combined and total are what was stitched so far
StitchLegs(allLocs, g, stops, i, combined, total) ==
    IF i = Len(stops)
    THEN Returned(setTotalDistance(combined, total), i - 1)
    ELSE LET leg == findPath(allLocs, g, stops[i], stops[i + 1])
         IN  IF leg.status # "ok"
             THEN Thrown(leg.status, leg.what, i - 1 + leg.searches)
             ELSE StitchLegs(allLocs, g, stops, i + 1,
                             PathPlus(combined, leg.path),
                             total + leg.path.totalDistance)

findPathVia_DropEndpointVias(allLocs, g, start, end, vias) ==
    StitchLegs(allLocs, g,
               Stops(start, end, SelectSeq(vias, LAMBDA v : v # start /\ v # end)),
               1, Path, 0)

findPathVia(allLocs, g, start, end, vias) ==
    IF \E i \in 1..Len(vias) : vias[i] = start \/ vias[i] = end
    THEN Thrown("ViaSelectionException", "via equals start or end", 0)
    ELSE StitchLegs(allLocs, g, Stops(start, end, vias), 1, Path, 0)

\* The error kinds of the specification, section 7
ErrorKind(status) ==
    CASE status = "InvalidLocationException" -> "InvalidArgument"
      [] status = "invalid_argument"         -> "InvalidArgument"
      [] status = "ViaSelectionException"    -> "InvalidArgument"
      [] status = "PathNotFoundException"    -> "PathNotFound"
      [] status = "runtime_error"            -> "NotFound"
      [] OTHER                               -> status

\* ------------------------------------------------------------------------
\* The router as a state machine
\* ------------------------------------------------------------------------
VARIABLES
    adjacencyList_,   \* Navigator::graph_ (Graph::adjacencyList_)
    allLocations_,    \* Navigator::allLocations_
    currentMode_,     \* Navigator::currentMode_
    lastPath_,        \* Navigator::lastPath_
    result,           \* what the last call threw or returned, with its arguments
    found,            \* history: some findPath call has succeeded
    location,         \* one Location object: name_, latitude_, longitude_
    search,           \* the locals of a dijkstraShortestPath call in progress
    gui               \* the GUIHandler object that runs on the router

vars ==
    <<adjacencyList_, allLocations_, currentMode_, lastPath_, result, found, location,
      search, gui>>

\* no search is in progress
NoSearch ==
    [phase |-> "idle", start |-> Null, end |-> Null, st |-> InitSearch(<<>>, Null),
     current |-> Null, reversePath |-> <<>>, stale |-> FALSE, expanded |-> <<>>, what |-> "", path |-> Path]

\* GUIHandler::GUIHandler: nothing selected, no via, Navigation mode.  The
\* three vectors of button rectangles always have one size, kept in
\* viaUpRects_; toggleButtonScreenRect_ tells whether that rectangle has been
\* set.  event is the event handled last: for a via button whether its row
\* was an index of the via list, and which findPath the handler called.  The state of the view (zoom, pan,
\* drag, inspected location, error text) decides nothing here and is left
\* out.
NoGui ==
    [selectedStart_ |-> Null, selectedEnd_ |-> Null, viaLocations_ |-> <<>>,
     uiMode_ |-> "Navigation", pathCalculated_ |-> FALSE, currentPath_ |-> Path,
     viaUpRects_ |-> 0, toggleButtonScreenRect_ |-> FALSE,
     event |-> [op |-> "none", valid |-> TRUE, called |-> "none"],
     status |-> "running"]

\* no Location object has been constructed
NoLocation == [constructed |-> FALSE, name_ |-> EmptyName, latitude_ |-> 0, longitude_ |-> 0]

NoCall ==
    [op |-> "none", start |-> Null, end |-> Null, vias |-> <<>>,
     status |-> "ok", what |-> "", path |-> Path, searches |-> 0, value |-> 0]

Call(op, start, end, vias, outcome, value) ==
    [op |-> op, start |-> start, end |-> end, vias |-> vias,
     status |-> outcome.status, what |-> outcome.what, path |-> outcome.path,
     searches |-> outcome.searches, value |-> value]

\* Navigator::Navigator(): the walking mode is installed
Init ==
    /\ adjacencyList_ = EmptyGraph
    /\ allLocations_ = <<>>
    /\ currentMode_ = "Walking"
    /\ lastPath_ = Path
    /\ result = NoCall
    /\ found = FALSE
    /\ location = NoLocation
    /\ search = NoSearch
    /\ gui = NoGui

RECURSIVE AddNodes(_, _)
AddNodes(g, locations) ==
    IF locations = <<>> THEN g ELSE AddNodes(addNode(g, Head(locations)), Tail(locations))

RECURSIVE AddConnections(_, _, _, _)
\* connections holds 0-based indices into locations
AddConnections(g, locations, connections, distances) ==
    IF connections = <<>> THEN g
    ELSE AddConnections(
             addUndirectedEdge(g, locations[Head(connections)[1] + 1],
                               locations[Head(connections)[2] + 1], Head(distances)),
             locations, Tail(connections), Tail(distances))

\* Navigator::initializeGraph
InitializeGraph(locations, connections, distances) ==
    /\ allLocations_' = locations
    /\ adjacencyList_' =
           AddConnections(AddNodes(adjacencyList_, locations),
                          locations, connections, distances)
    /\ UNCHANGED <<currentMode_, lastPath_, result, found, location, search, gui>>

Finish_AssignAlways(call) ==
    /\ result' = call
    /\ lastPath_' = call.path
    /\ found' = (found \/ call.status = "ok")
    /\ UNCHANGED <<adjacencyList_, allLocations_, currentMode_, location, search, gui>>

\* lastPath_ = dijkstraShortestPath(...): assigned only when nothing is thrown
Finish(call) ==
    /\ result' = call
    /\ lastPath_' = IF call.status = "ok" THEN call.path ELSE lastPath_
    /\ found' = (found \/ call.status = "ok")
    /\ UNCHANGED <<adjacencyList_, allLocations_, currentMode_, location, search, gui>>

FindPath(start, end) ==
    /\ allLocations_ # <<>>
    /\ \E outcome \in {findPath(allLocations_, adjacencyList_, start, end)} :
           Finish(Call("findPath", start, end, <<>>, outcome, 0))

FindPathByName(startName, endName) ==
    /\ allLocations_ # <<>>
    /\ \E outcome \in {findPathByName(allLocations_, adjacencyList_, startName, endName)} :
           Finish(Call("findPathByName", startName, endName, <<>>, outcome, 0))

\* Navigator::getLocationByName called by itself: the call record keeps the
\* name in start and the location returned in value
GetLocationByName(name) ==
    /\ allLocations_ # <<>>
    /\ \E loc \in {getLocationByName(allLocations_, name)} :
           result' = [NoCall EXCEPT !.op = "getLocationByName",
                                    !.start = name,
                                    !.value = loc,
                                    !.status = IF loc = Null
                                               THEN "InvalidLocationException"
                                               ELSE "ok"]
    /\ UNCHANGED <<adjacencyList_, allLocations_, currentMode_, lastPath_, found, location, search, gui>>

FindPathVia(start, end, vias) ==
    /\ allLocations_ # <<>>
    /\ \E outcome \in {findPathVia(allLocations_, adjacencyList_, start, end, vias)} :
           Finish(Call("findPathVia", start, end, vias, outcome, 0))

\* setNavigationMode that stores whatever it is given
setNavigationMode_NoCheck(current, mode) == [status |-> "ok", mode |-> mode]

\* Navigator::setNavigationMode: the outcome and the mode in place after it
setNavigationMode(current, mode) ==
    IF mode = NullMode THEN [status |-> "invalid_argument", mode |-> current]
    ELSE [status |-> "ok", mode |-> mode]

\* the call record keeps the argument in vias
SetNavigationMode(mode) ==
    /\ \E outcome \in {setNavigationMode(currentMode_, mode)} :
           /\ currentMode_' = outcome.mode
           /\ result' = [NoCall EXCEPT !.op = "setNavigationMode",
                                       !.vias = <<mode>>,
                                       !.status = outcome.status]
    /\ UNCHANGED <<adjacencyList_, allLocations_, lastPath_, found, location, search, gui>>

getEstimatedTime_WalkingOnly(lastPath, mode) ==
    IF empty(lastPath) THEN [status |-> "ok", value |-> 0]
    ELSE [status |-> "ok", value |-> calculateTime("Walking", lastPath.totalDistance)]

\* Navigator::getEstimatedTime
getEstimatedTime(lastPath, mode) ==
    IF empty(lastPath) THEN [status |-> "ok", value |-> 0]
    ELSE IF mode = NullMode THEN [status |-> "runtime_error", value |-> 0]
    ELSE [status |-> "ok", value |-> calculateTime(mode, lastPath.totalDistance)]

GetEstimatedTime ==
    /\ result' = [NoCall EXCEPT !.op = "getEstimatedTime",
                                !.status = getEstimatedTime(lastPath_, currentMode_).status,
                                !.value = getEstimatedTime(lastPath_, currentMode_).value]
    /\ UNCHANGED <<adjacencyList_, allLocations_, currentMode_, lastPath_, found, location, search, gui>>

\* ------------------------------------------------------------------------
\* Inputs
\* ------------------------------------------------------------------------
\* the caller's location list: the first k of the Location objects, so that
\* a Location object can exist without being a node of the graph
LocationLists == {[i \in 1..k |-> i] : k \in 2..NumLocations}

\* the same lists and their reversals: the pointers ascend or descend along
\* the list, which turns the tie-break of the priority queue around
EitherOrder == LocationLists \cup {[i \in 1..k |-> k + 1 - i] : k \in 2..NumLocations}

\* (from, to, distance) with 0-based indices; (i, j) and (j, i) give the
\* same two edges, so from <= to
Connections(n) ==
    {c \in (0..(n - 1)) \X (0..(n - 1)) \X Weights : c[1] <= c[2]}

Pairs(conns) == [i \in 1..Len(conns) |-> <<conns[i][1], conns[i][2]>>]
Dists(conns) == [i \in 1..Len(conns) |-> conns[i][3]]

\* The program calls initializeGraph once, on the router it has just
\* constructed (main.cpp:300).
Fresh == allLocations_ = <<>> /\ adjacencyList_ = EmptyGraph

Build(lists, maxConn) ==
    /\ Fresh
    /\ \E locations \in lists :
           \E conns \in SeqsUpTo(Connections(Len(locations)), maxConn) :
               InitializeGraph(locations, Pairs(conns), Dists(conns))

Args == Locations \cup {Null}
Names == 0..UnknownName
ViaLists == SeqsUpTo(Locations, MaxVias)

Next ==
    \/ Build(LocationLists, MaxNavConnections)
    \/ \E start \in Args, end \in Args : FindPath(start, end)
    \/ \E startName \in Names, endName \in Names : FindPathByName(startName, endName)
    \/ \E mode \in Modes \cup {NullMode} : SetNavigationMode(mode)
    \/ GetEstimatedTime
    \/ \E name \in Names : GetLocationByName(name)

Spec == Init /\ [][Next]_vars

\* One call on each router.  What findPath throws or returns is a function
\* of graph_, allLocations_ and its arguments, not of the calls before it.
FirstCall == result.op = "none"

NextSearch ==
    \/ Build(EitherOrder, MaxConnections)
    \/ \E start \in Args, end \in Args : FirstCall /\ FindPath(start, end)

SpecSearch == Init /\ [][NextSearch]_vars

\* ------------------------------------------------------------------------
\* What the claims speak of: walks of the graph and their weights, defined
\* without the search
\* ------------------------------------------------------------------------
Min(S) == CHOOSE x \in S : \A y \in S : x <= y

LightestEdge(g, from, to) ==
    Min({g[from][i].weight : i \in {j \in 1..Len(g[from]) : g[from][j].destination = to}})

RECURSIVE WalkWeight(_, _)
WalkWeight(g, locs) ==
    IF Len(locs) < 2 THEN 0
    ELSE LightestEdge(g, locs[1], locs[2]) + WalkWeight(g, Tail(locs))

IsWalk(g, locs) ==
    /\ \A i \in 1..Len(locs) : hasNode(g, locs[i])
    /\ \A i \in 1..(Len(locs) - 1) : hasEdge(g, locs[i], locs[i + 1])

RECURSIVE GeometricLength(_)
GeometricLength(locs) ==
    IF Len(locs) < 2 THEN 0
    ELSE distanceTo(locs[1], locs[2]) + GeometricLength(Tail(locs))

\* the walks from start to end that repeat no node; with weights that are
\* not negative a lightest walk is among them
SimpleWalks(g, start, end) ==
    {locs \in SeqsUpTo(DOMAIN g, Cardinality(DOMAIN g)) :
        /\ locs # <<>>
        /\ Head(locs) = start
        /\ Last(locs) = end
        /\ \A i \in 1..Len(locs), j \in 1..Len(locs) : locs[i] = locs[j] => i = j
        /\ IsWalk(g, locs)}

\* the minimum over all walks from start to end, INF when there is none
ShortestDistance(g, start, end) ==
    IF SimpleWalks(g, start, end) = {} THEN INF
    ELSE Min({WalkWeight(g, locs) : locs \in SimpleWalks(g, start, end)})

Connected(g, start, end) == SimpleWalks(g, start, end) # {}

BothNodes == hasNode(adjacencyList_, result.start) /\ hasNode(adjacencyList_, result.end)

\* ------------------------------------------------------------------------
\* Claims
\* ------------------------------------------------------------------------
\* C1: for every graph built by initializeGraph with non-negative weights
\* and every connected pair start, end, findPath(start, end) returns a path
\* whose total distance is the minimum over all walks from start to end.
C1_ShortestTotal ==
    (/\ result.op = "findPath"
     /\ BothNodes
     /\ Connected(adjacencyList_, result.start, result.end))
    => /\ result.status = "ok"
       /\ result.path.totalDistance =
              ShortestDistance(adjacencyList_, result.start, result.end)

\* a direct edge and a two-edge route tie, and the search has answered
C1_Witness ==
    /\ result.op = "findPath"
    /\ result.status = "ok"
    /\ result.path.totalDistance > 0
    /\ hasEdge(adjacencyList_, result.start, result.end)
    /\ LightestEdge(adjacencyList_, result.start, result.end) = result.path.totalDistance
    /\ \E mid \in DOMAIN adjacencyList_ \ {result.start, result.end} :
           /\ IsWalk(adjacencyList_, <<result.start, mid, result.end>>)
           /\ WalkWeight(adjacencyList_, <<result.start, mid, result.end>>) =
                  result.path.totalDistance

\* C2: a returned path starts at start, ends at end, joins consecutive
\* nodes by edges of the graph, and its total distance is the sum of the
\* edge weights along it, not the geometric length of the node sequence.
C2_PathIsWalk ==
    (result.op = "findPath" /\ result.status = "ok")
    => /\ result.path.locations # <<>>
       /\ Head(result.path.locations) = result.start
       /\ Last(result.path.locations) = result.end
       /\ IsWalk(adjacencyList_, result.path.locations)
       /\ result.path.totalDistance = WalkWeight(adjacencyList_, result.path.locations)

C2_Witness ==
    /\ result.op = "findPath"
    /\ result.status = "ok"
    /\ Len(result.path.locations) = 3
    /\ result.path.totalDistance # GeometricLength(result.path.locations)

\* C3: start and end are nodes but no sequence of edges leads from start to
\* end: findPath throws PathNotFoundException at the infinite-distance check
\* and returns no path.
C3_Disconnected ==
    (/\ result.op = "findPath"
     /\ BothNodes
     /\ ~Connected(adjacencyList_, result.start, result.end))
    => /\ result.status = "PathNotFoundException"
       /\ ErrorKind(result.status) = "PathNotFound"
       /\ result.what = "No path exists"
       /\ result.path = Path

\* the start has outgoing edges, the end is in another component
C3_Witness ==
    /\ result.op = "findPath"
    /\ result.status = "PathNotFoundException"
    /\ adjacencyList_[result.start] # <<>>
    /\ adjacencyList_[result.end] # <<>>

\* C4: findPath fails with InvalidArgument, and runs no search, when start
\* or end is null or is not a node of the graph.
C4_InvalidArgument ==
    (result.op = "findPath" /\ (result.start = Null \/ result.end = Null \/ ~BothNodes))
    => /\ result.status = "InvalidLocationException"
       /\ ErrorKind(result.status) = "InvalidArgument"
       /\ result.searches = 0
       /\ result.path = Path

\* a Location object that was not handed to initializeGraph
C4_Witness ==
    /\ result.op = "findPath"
    /\ result.start # Null
    /\ result.end # Null
    /\ ~hasNode(adjacencyList_, result.end)
    /\ hasNode(adjacencyList_, result.start)
    /\ result.status = "InvalidLocationException"

\* C5: the last path is the result of the most recent successful findPath
\* call; a call that fails (invalid argument, unknown name, disconnected
\* endpoints) leaves it as it was.
FindOps == {"findPath", "findPathByName", "findPathVia"}

C5_LastPath ==
    /\ [](result.op \in FindOps /\ result.status = "ok" => lastPath_ = result.path)
    /\ [][(result'.op \in FindOps /\ result' # result)
          => lastPath_' = IF result'.status = "ok" THEN result'.path ELSE lastPath_]_vars
    /\ [][result'.op \notin FindOps => lastPath_' = lastPath_]_vars

\* a failed call after a successful one: the last path is the older result
C5_Witness ==
    /\ result.op = "findPath"
    /\ result.status = "PathNotFoundException"
    /\ Len(lastPath_.locations) = 2

\* C6: getEstimatedTime returns 0 while no findPath call has succeeded, and
\* afterwards the active mode's calculateTime of the last path's total
\* distance; changing the mode leaves the last path alone.
C6_EstimatedTime ==
    /\ [](result.op = "getEstimatedTime"
          => /\ result.status = "ok"
             /\ result.value = IF ~found THEN 0
                               ELSE calculateTime(currentMode_, lastPath_.totalDistance))
    /\ [][currentMode_' # currentMode_ => lastPath_' = lastPath_]_vars

C6_Witness ==
    /\ result.op = "getEstimatedTime"
    /\ currentMode_ = "Cycling"
    /\ found
    /\ result.value > 0
    /\ result.value # calculateTime("Walking", lastPath_.totalDistance)

\* ------------------------------------------------------------------------
\* SpecVia: one call with a via list, after at most one two-argument call
\* ------------------------------------------------------------------------
NextVia ==
    \/ Build(LocationLists, MaxViaConnections)
    \/ \E start \in Args, end \in Args : FirstCall /\ FindPath(start, end)
    \/ \E start \in Args, end \in Args, vias \in ViaLists :
           result.op # "findPathVia" /\ FindPathVia(start, end, vias)

SpecVia == Init /\ [][NextVia]_vars

ViaAtEndpoint ==
    \E i \in 1..Len(result.vias) :
        result.vias[i] = result.start \/ result.vias[i] = result.end

RECURSIVE Stitched(_, _, _)
\* locs is made of lightest walks stops[1] -> stops[2] -> ..., each one
\* starting at the node where the one before ends
Stitched(g, locs, stops) ==
    IF Len(stops) = 1 THEN locs = <<stops[1]>>
    ELSE \E i \in 1..Len(locs) :
            /\ locs[1] = stops[1]
            /\ locs[i] = stops[2]
            /\ IsWalk(g, SubSeq(locs, 1, i))
            /\ WalkWeight(g, SubSeq(locs, 1, i)) = ShortestDistance(g, stops[1], stops[2])
            /\ Stitched(g, SubSeq(locs, i, Len(locs)), Tail(stops))

RECURSIVE LegsTotal(_, _)
LegsTotal(g, stops) ==
    IF Len(stops) < 2 THEN 0
    ELSE ShortestDistance(g, stops[1], stops[2]) + LegsTotal(g, Tail(stops))

\* C8: with a non-empty via list the returned path runs from start to end
\* through the vias in order, is the legs' shortest paths stitched with the
\* join nodes not duplicated, and its total is the sum of the legs'
\* shortest distances.
C8_Stitched ==
    (result.op = "findPathVia" /\ result.vias # <<>> /\ result.status = "ok")
    => LET locs == result.path.locations
           stops == Stops(result.start, result.end, result.vias)
       IN  /\ locs # <<>>
           /\ Head(locs) = result.start
           /\ Last(locs) = result.end
           /\ Stitched(adjacencyList_, locs, stops)
           /\ \A i \in 1..(Len(locs) - 1) : locs[i] # locs[i + 1]
           /\ result.path.totalDistance = LegsTotal(adjacencyList_, stops)

\* two vias, and a total that is not the geometric length
C8_Witness ==
    /\ result.op = "findPathVia"
    /\ result.status = "ok"
    /\ Len(result.vias) = 2
    /\ result.vias[1] # result.vias[2]
    /\ Len(result.path.locations) >= 4
    /\ result.path.totalDistance # GeometricLength(result.path.locations)

\* C9: with an empty via list the call throws or returns what
\* findPath(start, end) does, and updates the last path the same way.
C9_EmptyVias ==
    [][(result.op # "findPathVia" /\ result'.op = "findPathVia" /\ result'.vias = <<>>)
       => LET same == findPath(allLocations_, adjacencyList_, result'.start, result'.end)
          IN  /\ result'.status = same.status
              /\ result'.what = same.what
              /\ result'.path = same.path
              /\ lastPath_' = IF same.status = "ok" THEN same.path ELSE lastPath_]_vars

C9_Witness ==
    /\ result.op = "findPathVia"
    /\ result.vias = <<>>
    /\ result.status = "ok"
    /\ Len(result.path.locations) = 3

\* ------------------------------------------------------------------------
\* SpecGraph: the graph on its own, under its mutators
\* ------------------------------------------------------------------------
GraphWeights == 0..MaxGraphWeight

RECURSIVE SumLen(_, _)
SumLen(g, nodes) ==
    IF nodes = {} THEN 0
    ELSE LET n == CHOOSE x \in nodes : TRUE
         IN  Len(g[n]) + SumLen(g, nodes \ {n})

getEdgeCount(g) == SumLen(g, DOMAIN g)

GraphCall(op, x, y, w) ==
    [NoCall EXCEPT !.op = op, !.start = x, !.end = y, !.value = w]

GraphStep(op, x, y, w, g) ==
    /\ adjacencyList_' = g
    /\ result' = GraphCall(op, x, y, w)
    /\ UNCHANGED <<allLocations_, currentMode_, lastPath_, found, location, search, gui>>

AddNode(node) == GraphStep("addNode", node, Null, 0, addNode(adjacencyList_, node))

AddEdge(from, to, weight) ==
    /\ getEdgeCount(adjacencyList_) + 1 <= MaxEdges
    /\ GraphStep("addEdge", from, to, weight, addEdge(adjacencyList_, from, to, weight))

AddUndirectedEdge(node1, node2, weight) ==
    /\ getEdgeCount(adjacencyList_) + 2 <= MaxEdges
    /\ GraphStep("addUndirectedEdge", node1, node2, weight,
                 addUndirectedEdge(adjacencyList_, node1, node2, weight))

\* edges of the other nodes that lead to node
EdgesTo(g, node) ==
    getEdgeCount([n \in DOMAIN g \ {node} |->
                     SelectSeq(g[n], LAMBDA e : e.destination = node)])

\* the call record keeps, as its value, how many such edges the call erased
RemoveNode(node) ==
    GraphStep("removeNode", node, Null, EdgesTo(adjacencyList_, node),
              removeNode(adjacencyList_, node))

RemoveEdge(from, to) ==
    GraphStep("removeEdge", from, to, 0, removeEdge(adjacencyList_, from, to))

Clear == GraphStep("clear", Null, Null, 0, clear(adjacencyList_))

\* getEdgeWeight is const: the graph is left as it is
GetEdgeWeight(from, to) ==
    \E outcome \in {getEdgeWeight(adjacencyList_, from, to)} :
        /\ result' = [GraphCall("getEdgeWeight", from, to, outcome.value)
                         EXCEPT !.status = outcome.status]
        /\ UNCHANGED <<adjacencyList_, allLocations_, currentMode_, lastPath_, found, location, search, gui>>

NextGraph ==
    \/ \E node \in Locations : AddNode(node)
    \/ \E from \in Locations, to \in Locations, weight \in GraphWeights :
           AddEdge(from, to, weight)
    \/ \E node1 \in Locations, node2 \in Locations, weight \in GraphWeights :
           AddUndirectedEdge(node1, node2, weight)
    \/ \E node \in Locations : RemoveNode(node)
    \/ \E from \in Locations, to \in Locations : RemoveEdge(from, to)
    \/ Clear
    \/ \E from \in Locations, to \in Locations : GetEdgeWeight(from, to)

SpecGraph == Init /\ [][NextGraph]_vars

\* C10 as claimed: after addUndirectedEdge(x, y, w), in any graph state,
\* hasEdge holds both ways and edgeWeight returns w both ways.
C10_AsClaimed ==
    result.op = "addUndirectedEdge"
    => /\ hasEdge(adjacencyList_, result.start, result.end)
       /\ hasEdge(adjacencyList_, result.end, result.start)
       /\ getEdgeWeight(adjacencyList_, result.start, result.end) =
              [status |-> "ok", value |-> result.value]
       /\ getEdgeWeight(adjacencyList_, result.end, result.start) =
              [status |-> "ok", value |-> result.value]

\* C10, amended: hasEdge holds both ways after addUndirectedEdge(x, y, w);
\* edgeWeight returns w in a direction that held no edge before the call,
\* and the weight it returned before the call in a direction that did.
C10_RoundTrip ==
    [][result'.op = "addUndirectedEdge" /\ result' # result
       => LET x == result'.start
              y == result'.end
              After(from, to) == getEdgeWeight(adjacencyList_', from, to)
              Before(from, to) == getEdgeWeight(adjacencyList_, from, to)
              Kept(from, to) ==
                  After(from, to) =
                      IF hasEdge(adjacencyList_, from, to) THEN Before(from, to)
                      ELSE [status |-> "ok", value |-> result'.value]
          IN  /\ hasEdge(adjacencyList_', x, y)
              /\ hasEdge(adjacencyList_', y, x)
              /\ Kept(x, y)
              /\ Kept(y, x)]_vars

\* an edge x -> y of another weight was there before the call
C10_Witness ==
    /\ result.op = "addUndirectedEdge"
    /\ result.start # result.end
    /\ Len(adjacencyList_[result.start]) = 2
    /\ adjacencyList_[result.start][1].destination = result.end
    /\ adjacencyList_[result.start][1].weight # result.value
    /\ getEdgeWeight(adjacencyList_, result.end, result.start).value = result.value

\* ------------------------------------------------------------------------
\* Graph contracts (SpecGraph)
\* ------------------------------------------------------------------------

\* C11: addNode(n) changes nothing when n is already a node (its outgoing
\* edges are kept); when n is absent it adds n with an empty edge list and
\* changes no other node.
C11_AddNodeIdempotent ==
    [][result'.op = "addNode"
       => LET n == result'.start
          IN  IF n \in DOMAIN adjacencyList_
              THEN adjacencyList_' = adjacencyList_
              ELSE /\ DOMAIN adjacencyList_' = DOMAIN adjacencyList_ \cup {n}
                   /\ adjacencyList_'[n] = <<>>
                   /\ \A m \in DOMAIN adjacencyList_ :
                          adjacencyList_'[m] = adjacencyList_[m]]_vars

\* addNode was called on a node that has outgoing edges
C11_Witness ==
    /\ result.op = "addNode"
    /\ result.start \in DOMAIN adjacencyList_
    /\ Len(adjacencyList_[result.start]) > 0

\* C12: edgeWeight(from, to) succeeds exactly when hasEdge(from, to) and
\* otherwise fails with NotFound; it leaves the graph as it is; and over any
\* step the weight it would return for a pair stays the same as long as an
\* edge of that pair remains, a pair that gains its first edge returning that
\* edge's weight (so the weight is the one of the earliest edge still there).
C12_EdgeWeight ==
    /\ [](\A from \in Locations, to \in Locations :
             LET outcome == getEdgeWeight(adjacencyList_, from, to)
             IN  IF hasEdge(adjacencyList_, from, to)
                 THEN outcome.status = "ok"
                 ELSE ErrorKind(outcome.status) = "NotFound")
    /\ [][/\ result'.op = "getEdgeWeight" => adjacencyList_' = adjacencyList_
          /\ \A from \in Locations, to \in Locations :
                 hasEdge(adjacencyList_', from, to)
                 => getEdgeWeight(adjacencyList_', from, to).value =
                        IF hasEdge(adjacencyList_, from, to)
                        THEN getEdgeWeight(adjacencyList_, from, to).value
                        ELSE result'.value]_vars

\* edgeWeight was asked for a pair with two parallel edges of different
\* weights and returned the first one's
C12_Witness ==
    /\ result.op = "getEdgeWeight"
    /\ result.status = "ok"
    /\ result.start \in DOMAIN adjacencyList_
    /\ \E i, j \in 1..Len(adjacencyList_[result.start]) :
           /\ i < j
           /\ adjacencyList_[result.start][i].destination = result.end
           /\ adjacencyList_[result.start][j].destination = result.end
           /\ adjacencyList_[result.start][i].weight = result.value
           /\ adjacencyList_[result.start][j].weight # result.value

RECURSIVE Without(_, _)
\* edges, in order, less those that lead to node
Without(edges, node) ==
    IF edges = <<>> THEN <<>>
    ELSE IF Head(edges).destination = node THEN Without(Tail(edges), node)
         ELSE <<Head(edges)>> \o Without(Tail(edges), node)

\* C13: the destination of every stored edge is a node of the graph;
\* addEdge leaves both endpoints as nodes; removeNode(n) removes n and every
\* edge that leads to n and leaves every other node and edge unchanged.
C13_EdgesLeadToNodes ==
    /\ [](\A m \in DOMAIN adjacencyList_ :
             \A i \in 1..Len(adjacencyList_[m]) :
                 adjacencyList_[m][i].destination \in DOMAIN adjacencyList_)
    /\ [][/\ result'.op \in {"addEdge", "addUndirectedEdge"}
             => {result'.start, result'.end} \subseteq DOMAIN adjacencyList_'
          /\ result'.op = "removeNode"
             => /\ DOMAIN adjacencyList_' = DOMAIN adjacencyList_ \ {result'.start}
                /\ \A m \in DOMAIN adjacencyList_' :
                       adjacencyList_'[m] =
                           Without(adjacencyList_[m], result'.start)]_vars

\* removeNode erased edges from other nodes' lists and left some edge behind
C13_Witness ==
    /\ result.op = "removeNode"
    /\ result.value > 0
    /\ getEdgeCount(adjacencyList_) > 0

\* ------------------------------------------------------------------------
\* SpecPath: one Path object (held in lastPath_) under its own operations
\* ------------------------------------------------------------------------
MaxPathLen == 3       \* addLocation is taken while the path is shorter
MaxOtherLen == 2      \* length of the right operand of operator+
MaxTotal == 2         \* setTotalDistance is given -1..MaxTotal

PathLocations == Locations \cup {Twin}
PathArgs == PathLocations \cup {Null}

\* the right operands of operator+ : any node sequence with any cached total
\* (append builds the sequence, setTotalDistance then sets the total)
OtherPaths ==
    {[locations |-> locs, totalDistance |-> d] :
        locs \in SeqsUpTo(PathLocations, MaxOtherLen), d \in 0..MaxTotal}

PathCall(op, loc, other, value, status, path) ==
    [NoCall EXCEPT !.op = op, !.start = loc, !.vias = other, !.value = value,
                   !.status = status, !.path = path]

PathStep(call, path) ==
    /\ result' = call
    /\ lastPath_' = path
    /\ UNCHANGED <<adjacencyList_, allLocations_, currentMode_, found, location, search, gui>>

\* Path::Path() / Path::Path(Location*)
NewPath(start) ==
    PathStep(PathCall("Path", start, <<>>, 0, "ok", PathFrom(start)), PathFrom(start))

AddLocation(loc) ==
    /\ Len(lastPath_.locations) < MaxPathLen
    /\ \E outcome \in {tryAddLocation(lastPath_, loc)} :
           PathStep(PathCall("addLocation", loc, <<>>, 0, outcome.status, outcome.path),
                    outcome.path)

SetTotalDistance(dist) ==
    \E outcome \in {trySetTotalDistance(lastPath_, dist)} :
        PathStep(PathCall("setTotalDistance", Null, <<>>, dist, outcome.status,
                          outcome.path),
                 outcome.path)

\* lastPath_ + other: operator+ is const and takes other by const reference
Combine(other) ==
    PathStep(PathCall("operator+", Null, other.locations, other.totalDistance, "ok",
                      PathPlus(lastPath_, other)),
             lastPath_)

NextPath ==
    \/ \E start \in PathArgs : NewPath(start)
    \/ \E loc \in PathArgs : AddLocation(loc)
    \/ \E dist \in -1..MaxTotal : SetTotalDistance(dist)
    \/ \E other \in OtherPaths : Combine(other)

SpecPath == Init /\ [][NextPath]_vars

\* C14 as claimed: from any path state, append on an empty path yields size
\* 1 and total distance 0, and append on a non-empty path adds one node and
\* the geometric distance from the previous last node.
C14_AsClaimed ==
    [][result'.op = "addLocation" /\ result'.status = "ok"
       => IF empty(lastPath_)
          THEN /\ Len(lastPath_'.locations) = 1
               /\ lastPath_'.totalDistance = 0
          ELSE /\ Len(lastPath_'.locations) = Len(lastPath_.locations) + 1
               /\ lastPath_'.totalDistance =
                      lastPath_.totalDistance
                      + distanceTo(Last(lastPath_.locations), result'.start)]_vars

\* C14, amended: append puts the node at the end of the sequence; on an
\* empty path it leaves the cached total as it is (0 unless setTotalDistance
\* set it on the empty path), on a non-empty path it adds the geometric
\* distance from the previous last node.
C14_Append ==
    [][result'.op = "addLocation" /\ result'.status = "ok"
       => /\ lastPath_'.locations = lastPath_.locations \o <<result'.start>>
          /\ lastPath_'.totalDistance =
                 IF empty(lastPath_) THEN lastPath_.totalDistance
                 ELSE lastPath_.totalDistance
                      + distanceTo(Last(lastPath_.locations), result'.start)]_vars

\* a node was appended to an empty path whose cached total had been set
C14_Witness ==
    /\ result.op = "addLocation"
    /\ result.status = "ok"
    /\ Len(lastPath_.locations) = 1
    /\ lastPath_.totalDistance > 0

\* C15: setTotalDistance(d) with d >= 0 sets the cached total to d and keeps
\* the node sequence; with d < 0 it fails with InvalidArgument and changes
\* nothing; the cached total of a path is never negative.
C15_SetTotalDistance ==
    /\ [](lastPath_.totalDistance >= 0 /\ result.path.totalDistance >= 0)
    /\ [][result'.op = "setTotalDistance"
          => IF result'.value >= 0
             THEN /\ result'.status = "ok"
                  /\ lastPath_'.totalDistance = result'.value
                  /\ lastPath_'.locations = lastPath_.locations
             ELSE /\ ErrorKind(result'.status) = "InvalidArgument"
                  /\ lastPath_' = lastPath_]_vars

\* a negative distance was refused on a path that holds nodes and a total
C15_Witness ==
    /\ result.op = "setTotalDistance"
    /\ result.value < 0
    /\ result.status = "invalid_argument"
    /\ Len(lastPath_.locations) > 1
    /\ lastPath_.totalDistance > 0

\* whether operator+ leaves out the first node of b
JoinDropped(a, b) ==
    /\ a.locations # <<>>
    /\ b.locations # <<>>
    /\ getId(Last(a.locations)) = getId(Head(b.locations))

\* C16: the node sequence of a + b is a's followed by b's, the first node of
\* b being dropped exactly when both are non-empty and the id of a's last
\* node equals the id of b's first node; the left operand is not modified
\* (the right one is passed by const reference).
C16_Concatenation ==
    [][result'.op = "operator+"
       => LET a == lastPath_
              b == [locations |-> result'.vias, totalDistance |-> result'.value]
          IN  /\ result'.path.locations =
                     a.locations \o (IF JoinDropped(a, b) THEN Tail(b.locations)
                                     ELSE b.locations)
              /\ lastPath_' = lastPath_]_vars

\* the join node was dropped between two different objects of equal id
C16_Witness ==
    /\ result.op = "operator+"
    /\ lastPath_.locations # <<>>
    /\ result.vias # <<>>
    /\ Last(lastPath_.locations) # Head(result.vias)
    /\ getId(Last(lastPath_.locations)) = getId(Head(result.vias))
    /\ Len(result.path.locations) = Len(lastPath_.locations) + Len(result.vias) - 1

\* C17 as claimed: the total of a + b is a's cached total plus the geometric
\* distances added while b's remaining nodes are appended one by one.
C17_AsClaimed ==
    [][result'.op = "operator+"
       => LET a == lastPath_
              b == [locations |-> result'.vias, totalDistance |-> result'.value]
              suffix == IF JoinDropped(a, b) THEN Tail(b.locations) ELSE b.locations
              added == IF a.locations = <<>> THEN GeometricLength(suffix)
                       ELSE GeometricLength(<<Last(a.locations)>> \o suffix)
          IN  result'.path.totalDistance = a.totalDistance + added]_vars

\* C17, amended: the total of a + b is the geometric length of the result's
\* node sequence, whatever the cached totals of a and of b are.
C17_Recomputed ==
    [][result'.op = "operator+"
       => result'.path.totalDistance = GeometricLength(result'.path.locations)]_vars

\* both operands carried a cached total that is not their geometric length
C17_Witness ==
    /\ result.op = "operator+"
    /\ Len(lastPath_.locations) > 1
    /\ lastPath_.totalDistance # GeometricLength(lastPath_.locations)
    /\ Len(result.vias) > 1
    /\ result.value # GeometricLength(result.vias)
    /\ result.path.totalDistance = GeometricLength(result.path.locations)

\* ------------------------------------------------------------------------
\* SpecLocation: one Location object (Location.cpp) under its constructors
\* and setters.  Coordinates are whole degrees; NaN stands for the double
\* that is not a number, for which every ordered comparison is false.
\* ------------------------------------------------------------------------
MinLatitude == -90
MaxLatitude == 90
MinLongitude == -180
MaxLongitude == 180
NaN == 1000

\* a < b on doubles
Less(a, b) == a # NaN /\ b # NaN /\ a < b

Thrown_(loc) == [status |-> "invalid_argument", location |-> loc]
Done_(loc) == [status |-> "ok", location |-> loc]

setName(loc, name) ==
    IF name = EmptyName THEN Thrown_(loc)
    ELSE Done_([loc EXCEPT !.name_ = name])

setLatitude(loc, lat) ==
    IF Less(lat, MinLatitude) \/ Less(MaxLatitude, lat) THEN Thrown_(loc)
    ELSE Done_([loc EXCEPT !.latitude_ = lat])

setLongitude(loc, lon) ==
    IF Less(lon, MinLongitude) \/ Less(MaxLongitude, lon) THEN Thrown_(loc)
    ELSE Done_([loc EXCEPT !.longitude_ = lon])

\* Location::Location(): "Unknown" at (0, 0)
defaultLocation ==
    [constructed |-> TRUE, name_ |-> UnknownName, latitude_ |-> 0, longitude_ |-> 0]

\* Location::Location(name, lat, lon, desc, id): name_ is initialised from
\* name as it is, then setLatitude and setLongitude run; when one of them
\* throws, no object comes to exist.
newLocation(name, lat, lon) ==
    LET named == [NoLocation EXCEPT !.constructed = TRUE, !.name_ = name]
        withLat == setLatitude(named, lat)
        withLon == setLongitude(withLat.location, lon)
    IN  IF withLat.status # "ok" THEN Thrown_(NoLocation)
        ELSE IF withLon.status # "ok" THEN Thrown_(NoLocation)
        ELSE withLon

LocationNames == {EmptyName} \cup (1..NumNames)
Coordinates ==
    {MinLongitude - 1, MinLongitude, MinLatitude - 1, MinLatitude, 0,
     MaxLatitude, MaxLatitude + 1, MaxLongitude, MaxLongitude + 1, NaN}

\* the record of a call on the Location: its arguments <<name, lat, lon>>
\* (those the operation takes) and whether it threw
LocationStep(op, args, outcome) ==
    /\ result' = [NoCall EXCEPT !.op = op, !.vias = args, !.status = outcome.status]
    /\ location' = outcome.location
    /\ UNCHANGED <<adjacencyList_, allLocations_, currentMode_, lastPath_, found, search, gui>>

DefaultConstruct == LocationStep("Location()", <<>>, Done_(defaultLocation))

Construct(name, lat, lon) ==
    LocationStep("Location", <<name, lat, lon>>, newLocation(name, lat, lon))

SetName(name) ==
    /\ location.constructed
    /\ LocationStep("setName", <<name>>, setName(location, name))

SetLatitude(lat) ==
    /\ location.constructed
    /\ LocationStep("setLatitude", <<lat>>, setLatitude(location, lat))

SetLongitude(lon) ==
    /\ location.constructed
    /\ LocationStep("setLongitude", <<lon>>, setLongitude(location, lon))

NextLocation ==
    \/ DefaultConstruct
    \/ \E name \in LocationNames, lat \in Coordinates, lon \in Coordinates :
           Construct(name, lat, lon)
    \/ \E name \in LocationNames : SetName(name)
    \/ \E lat \in Coordinates : SetLatitude(lat)
    \/ \E lon \in Coordinates : SetLongitude(lon)

SpecLocation == Init /\ [][NextLocation]_vars

\* lo <= x <= hi on doubles
Within(x, lo, hi) == x # NaN /\ lo <= x /\ x <= hi

\* C18: a Location's latitude is within [-90, 90] and its longitude within
\* [-180, 180] after construction and any setLatitude and setLongitude calls;
\* constructing with an out-of-range coordinate fails with InvalidArgument;
\* a rejected setter call leaves the stored coordinate unchanged.
C18_CoordinatesValid ==
    /\ [](location.constructed
           => /\ Within(location.latitude_, MinLatitude, MaxLatitude)
              /\ Within(location.longitude_, MinLongitude, MaxLongitude))
    /\ [][/\ result'.op = "Location"
             /\ \/ ~Within(result'.vias[2], MinLatitude, MaxLatitude)
                \/ ~Within(result'.vias[3], MinLongitude, MaxLongitude)
             => ErrorKind(result'.status) = "InvalidArgument"
          /\ result'.op \in {"setLatitude", "setLongitude"} /\ result'.status # "ok"
             => location' = location]_vars

\* C19: constructing a Location with an empty name fails with
\* InvalidArgument; the display name of every Location is non-empty after
\* construction and after any sequence of setName calls.
C19_NameNonEmpty ==
    /\ [](location.constructed => location.name_ # EmptyName)
    /\ [][result'.op = "Location" /\ result'.vias[1] = EmptyName
          => ErrorKind(result'.status) = "InvalidArgument"]_vars

\* ------------------------------------------------------------------------
\* The router's speed model (Spec)
\* ------------------------------------------------------------------------

\* C20: the active speed model is never null: the walking model is installed
\* at construction, setNavigationMode(null) fails with InvalidArgument and
\* leaves the active model unchanged, and getEstimatedTime never fails with
\* "navigation mode not set".
C20_ModeNeverNull ==
    /\ currentMode_ = "Walking"
    /\ [](/\ currentMode_ # NullMode
          /\ result.op = "getEstimatedTime" => result.status = "ok")
    /\ [][result'.op = "setNavigationMode"
          => IF result'.vias = <<NullMode>>
             THEN /\ ErrorKind(result'.status) = "InvalidArgument"
                  /\ currentMode_' = currentMode_
             ELSE /\ result'.status = "ok"
                  /\ currentMode_' = result'.vias[1]]_vars

\* a null model was refused while the cycling model was active and a path
\* was cached, so that getEstimatedTime goes on to use the model
C20_Witness ==
    /\ result.op = "setNavigationMode"
    /\ result.vias = <<NullMode>>
    /\ result.status = "invalid_argument"
    /\ currentMode_ = "Cycling"
    /\ ~empty(lastPath_)

\* ------------------------------------------------------------------------
\* SpecInit: initializeGraph on a new router, with connection indices that
\* may lie past the end of locations.  locations[from] is an unchecked
\* std::vector::operator[] (Navigator.cpp:41-46): past the end the read is
\* undefined, and either the process is killed or some word of memory is
\* taken as the Location pointer.
\* ------------------------------------------------------------------------
MaxInitConnections == 2

Wild == NumLocations + 2     \* an address that is no Location object

\* what an out-of-bounds read can yield
WildPointers == Locations \cup {Null, Wild}

\* (from, to, distance): the indices run to one past the last location
InitConnections(n) == (0..n) \X (0..n) \X Weights

InBounds(locations, conns) ==
    \A k \in 1..Len(conns) :
        /\ conns[k][1] \in 0..(Len(locations) - 1)
        /\ conns[k][2] \in 0..(Len(locations) - 1)

InitCall(conns, status) ==
    [NoCall EXCEPT !.op = "initializeGraph", !.vias = conns, !.status = status]

\* the call runs to its end; memory past the end of locations reads as wild
InitializeReturns(locations, conns, wild) ==
    /\ allLocations_' = locations
    /\ adjacencyList_' =
           AddConnections(AddNodes(adjacencyList_, locations),
                          locations \o <<wild>>, Pairs(conns), Dists(conns))
    /\ result' = InitCall(conns, "ok")
    /\ UNCHANGED <<currentMode_, lastPath_, found, location, search, gui>>

\* the out-of-bounds read faults and the process is killed
InitializeCrashes(locations, conns) ==
    /\ ~InBounds(locations, conns)
    /\ allLocations_' = locations
    /\ adjacencyList_' = AddNodes(adjacencyList_, locations)
    /\ result' = InitCall(conns, "SIGSEGV")
    /\ UNCHANGED <<currentMode_, lastPath_, found, location, search, gui>>

Initialize(locations, conns) ==
    \/ \E wild \in WildPointers : InitializeReturns(locations, conns, wild)
    \/ InitializeCrashes(locations, conns)

NextInit ==
    /\ Fresh
    /\ \E locations \in LocationLists :
           \E conns \in SeqsUpTo(InitConnections(Len(locations)), MaxInitConnections) :
               Initialize(locations, conns)

SpecInit == Init /\ [][NextInit]_vars

\* C21: initialize fails with InvalidArgument when an index of some pair is
\* outside the bounds of locations; otherwise it adds every location as a
\* node and, for each (i, j, weight), an undirected edge between
\* locations[i] and locations[j] with that weight.
C21_Initialize ==
    result.op = "initializeGraph"
    => IF ~InBounds(allLocations_, result.vias)
       THEN ErrorKind(result.status) = "InvalidArgument"
       ELSE /\ result.status = "ok"
            /\ \A k \in 1..Len(allLocations_) : hasNode(adjacencyList_, allLocations_[k])
            /\ \A k \in 1..Len(result.vias) :
                   LET x == allLocations_[result.vias[k][1] + 1]
                       y == allLocations_[result.vias[k][2] + 1]
                   IN  \E i \in 1..Len(adjacencyList_[x]), j \in 1..Len(adjacencyList_[y]) :
                           /\ adjacencyList_[x][i] = Edge(y, result.vias[k][3])
                           /\ adjacencyList_[y][j] = Edge(x, result.vias[k][3])

\* ------------------------------------------------------------------------
\* Lookup by name (Spec)
\* ------------------------------------------------------------------------
Stored(name) == {i \in 1..Len(allLocations_) : getName(allLocations_[i]) = name}

\* C22 as claimed: getLocationByName fails with NotFound when no stored
\* location has the name.
C22_AsClaimed ==
    result.op = "getLocationByName" /\ Stored(result.start) = {}
    => ErrorKind(result.status) = "NotFound"

\* C22, amended: getLocationByName returns the first stored location whose
\* name is the one asked for, and fails with InvalidLocationException, of
\* the InvalidArgument kind, when there is none; findPath by names fails the
\* same way for a name that is not stored and leaves the last path alone.
C22_LookupByName ==
    /\ [](result.op = "getLocationByName"
           => IF Stored(result.start) = {}
              THEN /\ result.status = "InvalidLocationException"
                   /\ ErrorKind(result.status) = "InvalidArgument"
              ELSE /\ result.status = "ok"
                   /\ \E i \in Stored(result.start) :
                          /\ result.value = allLocations_[i]
                          /\ \A j \in Stored(result.start) : i <= j)
    /\ [][/\ result'.op = "findPathByName"
             /\ result'.start # EmptyName
             /\ result'.end # EmptyName
             /\ (Stored(result'.start) = {} \/ Stored(result'.end) = {})
             => /\ result'.status = "InvalidLocationException"
                /\ result'.searches = 0
                /\ lastPath_' = lastPath_]_vars

\* a name carried by two stored locations was looked up
C22_Witness ==
    /\ result.op = "getLocationByName"
    /\ result.status = "ok"
    /\ Cardinality(Stored(result.start)) > 1

\* ------------------------------------------------------------------------
\* SpecTime: calculateTime of the two speed models on whole metres
\* ------------------------------------------------------------------------
MaxMeters == 1000

\* the call record keeps <<mode, distanceMeters>> in vias and the time
\* returned, in 1/1000 minute, in value
CalculateTime(mode, distanceMeters) ==
    /\ result' = [NoCall EXCEPT !.op = "calculateTime",
                                !.vias = <<mode, distanceMeters>>,
                                !.value = calculateTime(mode, distanceMeters)]
    /\ UNCHANGED <<adjacencyList_, allLocations_, currentMode_, lastPath_, found, location, search, gui>>

NextTime == \E mode \in Modes, distanceMeters \in 0..MaxMeters :
                CalculateTime(mode, distanceMeters)

SpecTime == Init /\ [][NextTime]_vars

\* C23: calculateTime(distanceMeters) is distanceMeters / (speed * 1000 / 60)
\* minutes with speed 5 km/h for walking and 15 km/h for cycling; 1000 m
\* takes 12 minutes walking and 4 minutes cycling; the walking time is three
\* times the cycling time for every distance.
C23_CalculateTime ==
    result.op = "calculateTime"
    => LET mode == result.vias[1]
           meters == result.vias[2]
           speedKmPerHour == IF mode = "Walking" THEN 5 ELSE 15
       IN  /\ result.value * speedKmPerHour * 1000 = meters * 60 * 1000
           /\ meters = 1000 => result.value = IF mode = "Walking" THEN 12000 ELSE 4000
           /\ calculateTime("Walking", meters) = 3 * calculateTime("Cycling", meters)

\* the walking time of 1000 m
C23_Witness ==
    /\ result.op = "calculateTime"
    /\ result.vias = <<"Walking", 1000>>
    /\ result.value = 12000

\* ------------------------------------------------------------------------
\* SpecLoop: one dijkstraShortestPath call taken an iteration at a time.
\* search.st holds distances, previous, visited and pq; search.current and
\* search.reversePath are the locals of the while loop of reconstructPath;
\* search.stale counts the entries popped for a node already visited.
\* ------------------------------------------------------------------------
MaxLoopConnections == 3

SearchStep(next) ==
    /\ search' = next
    /\ UNCHANGED <<adjacencyList_, allLocations_, currentMode_, lastPath_, result, found,
                   location, gui>>

\* findPath has checked start and end (lines 66-73); steps 1 and 2 run
StartSearch(start, end) ==
    /\ search.phase = "idle"
    /\ allLocations_ # <<>>
    /\ hasNode(adjacencyList_, start)
    /\ hasNode(adjacencyList_, end)
    /\ SearchStep([NoSearch EXCEPT !.phase = "loop", !.start = start, !.end = end,
                                   !.st = InitSearch(allLocations_, start)])

\* one iteration of while (!pq.empty())
LoopStep ==
    /\ search.phase = "loop"
    /\ search.st.pq # <<>>
    /\ ~search.st.done
    /\ LET top == search.st.pq[TopIndex(search.st.pq)]
       IN  SearchStep([search EXCEPT
               !.st = DijkstraStep(adjacencyList_, search.st, search.end),
               !.stale = @ \/ MapGet(search.st.visited, top[2], FALSE),
               !.expanded = IF MapGet(search.st.visited, top[2], FALSE) THEN @
                            ELSE Append(@, top[2])])

\* the loop is left, by break or on the empty queue; step 4 tests
\* distances[end], which inserts 0.0 when end has no entry
LoopExit ==
    /\ search.phase = "loop"
    /\ search.st.pq = <<>> \/ search.st.done
    /\ LET atEnd == MapGet(search.st.distances, search.end, 0)
           st == [search.st EXCEPT !.distances = MapPut(@, search.end, atEnd)]
       IN  IF atEnd = INF
           THEN SearchStep([search EXCEPT !.phase = "thrown", !.st = st,
                                          !.what = "No path exists"])
           ELSE SearchStep([search EXCEPT !.phase = "walk", !.st = st,
                                          !.current = search.end])

\* one test of while (current != start) in reconstructPath, and what
\* follows it
WalkStep ==
    /\ search.phase = "walk"
    /\ Len(search.reversePath) <= NumLocations + 1
    /\ IF search.current = search.start
       THEN SearchStep([search EXCEPT
                !.phase = "returned",
                !.path = setTotalDistance(
                             BuildPath(Path, Reverse(Append(search.reversePath,
                                                            search.start))),
                             search.st.distances[search.end])])
       ELSE IF search.current \notin DOMAIN search.st.previous
       THEN SearchStep([search EXCEPT
                !.phase = "thrown",
                !.reversePath = Append(@, search.current),
                !.what = "Path reconstruction failed"])
       ELSE SearchStep([search EXCEPT
                !.reversePath = Append(@, search.current),
                !.current = search.st.previous[search.current]])

NextLoop ==
    \/ Build(EitherOrder, MaxLoopConnections)
    \/ \E start \in Locations, end \in Locations : StartSearch(start, end)
    \/ LoopStep
    \/ LoopExit
    \/ WalkStep

SpecLoop == Init /\ [][NextLoop]_vars

MaxFairConnections == 2

NextLoopFair ==
    \/ Build(EitherOrder, MaxFairConnections)
    \/ \E start \in Locations, end \in Locations : StartSearch(start, end)
    \/ LoopStep
    \/ LoopExit
    \/ WalkStep

\* the call is synchronous and single-threaded: once it has started, its
\* next step is always taken
SpecLoopFair ==
    Init /\ [][NextLoopFair]_vars /\ WF_vars(LoopStep \/ LoopExit \/ WalkStep)

\* ------------------------------------------------------------------------
\* the distance the loop leaves for `end` when it has no early stop and runs
\* until the queue is empty
ExhaustiveDistance(start, end) ==
    DijkstraLoop(adjacencyList_, InitSearch(allLocations_, start), Null).distances[end]

\* C24: during the loop every visited node's tentative distance is the true
\* shortest distance from start; a visited node's distance and predecessor
\* never change afterwards; and the distance the early stop leaves for the
\* destination is the one the loop finds when it runs until the queue is
\* empty.
C24_VisitedIsFinal ==
    /\ [](search.phase # "idle" =>
             \A n \in DOMAIN search.st.visited :
                 search.st.visited[n] =>
                     search.st.distances[n] =
                         ShortestDistance(adjacencyList_, search.start, n))
    /\ [][\A n \in DOMAIN search.st.visited :
              search.st.visited[n] =>
                  /\ search'.st.visited[n]
                  /\ search'.st.distances[n] = search.st.distances[n]
                  /\ MapGet(search'.st.previous, n, Null) =
                         MapGet(search.st.previous, n, Null)]_vars
    /\ [](search.phase \in {"walk", "returned", "thrown"} =>
             search.st.distances[search.end] =
                 ExhaustiveDistance(search.start, search.end))

\* the loop stopped at the destination with entries left in the queue, and
\* the path found has an intermediate node
C24_Witness ==
    /\ search.phase = "returned"
    /\ search.st.done
    /\ search.st.pq # <<>>
    /\ Len(search.path.locations) = 3
    /\ search.path.totalDistance > 0

\* C25: a node is expanded at most once; an entry popped for a node already
\* visited is dropped and changes no distance, predecessor or visited mark;
\* an entry that is not dropped carries the node's current tentative
\* distance.
C25_ExpandedOnce ==
    /\ [](\A i \in 1..Len(search.expanded), j \in 1..Len(search.expanded) :
              search.expanded[i] = search.expanded[j] => i = j)
    /\ [][(search.phase = "loop" /\ search'.phase = "loop" /\ search.st.pq # <<>>) =>
              LET st == search.st
                  top == st.pq[TopIndex(st.pq)]
              IN  IF MapGet(st.visited, top[2], FALSE)
                  THEN /\ search'.st.distances = st.distances
                       /\ search'.st.previous = st.previous
                       /\ search'.st.visited = st.visited
                       /\ search'.st.pq = RemoveAt(st.pq, TopIndex(st.pq))
                  ELSE /\ top[1] = MapGet(st.distances, top[2], 0)
                       /\ search'.st.visited = MapPut(st.visited, top[2], TRUE)]_vars

\* a stale entry has been popped and dropped, and the search has answered
C25_Witness ==
    /\ search.phase = "returned"
    /\ search.stale
    /\ Len(search.expanded) = NumLocations

\* C26: when the loop ends with a finite distance for the destination, the
\* walk over the predecessors meets no node without a predecessor before it
\* reaches start, and it visits no node twice; the only exception a search
\* throws is 'No path exists'.
C26_ChainReachesStart ==
    /\ (search.phase = "walk" /\ search.current # search.start) =>
           /\ search.current \in DOMAIN search.st.previous
           /\ search.current \notin Range(search.reversePath)
    /\ search.phase = "thrown" => search.what = "No path exists"

\* the walk went over an intermediate node and reached start
C26_Witness ==
    /\ search.phase = "returned"
    /\ Len(search.reversePath) = 2
    /\ search.path.locations[1] = search.start

\* C27: a search that has entered the loop ends, by returning a path or by
\* throwing: the loop stops and the walk over the predecessors reaches
\* start.
C27_Terminates ==
    (search.phase = "loop") ~> (search.phase \in {"returned", "thrown"})

\* a search went over a zero-weight self-loop on the way and returned a
\* path of two nodes
C27_Witness ==
    /\ search.phase = "returned"
    /\ Len(search.path.locations) = 2
    /\ \E i \in 1..Len(adjacencyList_[search.start]) :
           /\ adjacencyList_[search.start][i].destination = search.start
           /\ adjacencyList_[search.start][i].weight = 0

\* ------------------------------------------------------------------------
\* C28: findPath(a, a) for a node a succeeds with the path [a] of total
\* distance 0, which becomes the last path; the last path is then not empty,
\* and getEstimatedTime returns 0 on it in every mode.
C28_SameStartAndEnd ==
    /\ (/\ result.op = "findPath"
        /\ result.start = result.end
        /\ hasNode(adjacencyList_, result.start))
       => /\ result.status = "ok"
          /\ result.path = [locations |-> <<result.start>>, totalDistance |-> 0]
          /\ lastPath_ = result.path
          /\ ~empty(lastPath_)
          /\ \A mode \in Modes :
                 getEstimatedTime(lastPath_, mode) = [status |-> "ok", value |-> 0]
    /\ (result.op = "getEstimatedTime" /\ Len(lastPath_.locations) = 1)
       => result.status = "ok" /\ result.value = 0

\* the time of a one-node last path has been asked for in cycling mode
C28_Witness ==
    /\ result.op = "getEstimatedTime"
    /\ found
    /\ Len(lastPath_.locations) = 1
    /\ currentMode_ = "Cycling"
    /\ result.value = 0

\* ------------------------------------------------------------------------
\* GUIHandler: the event loop on a router whose graph has been built
\* (main.cpp:300, 352-355).  One action is one event taken by
\* while (pollEvent) in handleEvents; Render is render() of run(), which
\* comes only when no event is pending.
\* ------------------------------------------------------------------------
MaxGuiConnections == 2

\* the campus: every location, joined in a chain by the first k connections
CampusLocations == [i \in 1..NumLocations |-> i]

CampusConnections ==
    {[i \in 1..k |-> <<i - 1, i>>] :
         k \in 0..(IF MaxGuiConnections < NumLocations THEN MaxGuiConnections
                   ELSE NumLocations - 1)}

\* main.cpp:300
BuildCampus ==
    /\ Fresh
    /\ \E connections \in CampusConnections :
           InitializeGraph(CampusLocations, connections,
                           [i \in 1..Len(connections) |-> 1])

ViaButtons == {"up", "down", "remove"}

Swap(s, i, j) == [s EXCEPT ![i] = s[j], ![j] = s[i]]

Event(op, valid) == [op |-> op, valid |-> valid, called |-> "none"]

GuiRunning == allLocations_ # <<>> /\ gui.status = "running"

\* an event that calls nothing of the router
GuiStep(next) ==
    /\ gui' = next
    /\ UNCHANGED <<adjacencyList_, allLocations_, currentMode_, lastPath_, result, found,
                   location, search>>

\* navigator_.findPath(selectedStart_, selectedEnd_[, viaLocations_]) in a
\* try block, from the state `next` the handler has reached; sets tells
\* whether the handler assigns pathCalculated_ after the call.  The call is
\* kept in gui.event; its arguments are the selection and the via list of
\* the state it leaves.
GuiFindPath(next, withVias, sets) ==
    LET outcome == IF withVias
                   THEN findPathVia(allLocations_, adjacencyList_, next.selectedStart_,
                                    next.selectedEnd_, next.viaLocations_)
                   ELSE findPath(allLocations_, adjacencyList_, next.selectedStart_,
                                 next.selectedEnd_)
        ok == outcome.status = "ok"
    IN  /\ gui' = [next EXCEPT !.currentPath_ = IF ok THEN outcome.path ELSE @,
                               !.pathCalculated_ = IF sets THEN ok ELSE @,
                               !.event.called = IF withVias THEN "findPathVia"
                                                ELSE "findPath"]
        /\ lastPath_' = IF ok THEN outcome.path ELSE lastPath_
        /\ found' = (found \/ ok)

\* lines 83-91 and 222-223: the toggle button, the E key and the N key
ToggleButton ==
    /\ GuiRunning
    /\ gui.toggleButtonScreenRect_
    /\ GuiStep([gui EXCEPT !.uiMode_ = IF @ = "Explore" THEN "Navigation" ELSE "Explore",
                           !.event = Event("other", TRUE)])

UiModeKey(mode) ==
    /\ GuiRunning
    /\ GuiStep([gui EXCEPT !.uiMode_ = mode, !.event = Event("other", TRUE)])

\* lines 94-127: a left click inside the rectangle of button `button` of
\* row vi (0-based).  The rectangles are those of the last render; an index
\* past the end of viaLocations_ is undefined behaviour in swap and erase.
ViaButton(button, vi) ==
    /\ GuiRunning
    /\ vi < gui.viaUpRects_
    /\ LET vias == gui.viaLocations_
           valid == vi < Len(vias)
           touches == \/ button = "up" /\ vi > 0
                      \/ button = "remove"
           after == CASE button = "up" /\ vi > 0 -> Swap(vias, vi + 1, vi)
                      [] button = "down" /\ vi + 1 < Len(vias) -> Swap(vias, vi + 1, vi + 2)
                      [] button = "remove" -> RemoveAt(vias, vi + 1)
                      [] OTHER -> vias
           next == [gui EXCEPT !.viaLocations_ = after,
                               !.event = Event(button, valid)]
       IN  IF touches /\ ~valid
           THEN /\ \E outcome \in {"crashed", "undefined"} :
                    \E w \in WildPointers :
                       gui' = [gui EXCEPT
                                  !.status = outcome,
                                  !.event = Event(button, FALSE),
                                  !.viaLocations_ =
                                      IF outcome = "crashed" THEN @
                                      ELSE IF button = "up" /\ vi = Len(vias)
                                      THEN [@ EXCEPT ![vi] = w]
                                      ELSE IF button = "remove" /\ vias # <<>>
                                      THEN SubSeq(@, 1, Len(@) - 1)
                                      ELSE @]
                /\ UNCHANGED <<adjacencyList_, allLocations_, currentMode_, lastPath_,
                               result, found, location, search>>
           ELSE IF gui.selectedStart_ # Null /\ gui.selectedEnd_ # Null
           THEN /\ GuiFindPath(next, after # <<>>, TRUE)
                /\ UNCHANGED <<adjacencyList_, allLocations_, currentMode_, result,
                               location, search>>
           ELSE GuiStep(next)

\* lines 129-142 and handleBuildingClick, 635-687: a left click on the
\* marker of loc, outside every button
LeftClick(loc) ==
    /\ GuiRunning
    /\ loc \in Range(allLocations_)
    /\ LET seen == [gui EXCEPT !.event = Event("other", TRUE)]
       IN  IF gui.uiMode_ = "Explore" THEN GuiStep(seen)
           ELSE IF gui.selectedStart_ = Null
           THEN GuiStep([seen EXCEPT !.selectedStart_ = loc])
           ELSE IF gui.selectedEnd_ = Null /\ loc # gui.selectedStart_
           THEN /\ GuiFindPath([seen EXCEPT !.selectedEnd_ = loc],
                               gui.viaLocations_ # <<>>, TRUE)
                /\ UNCHANGED <<adjacencyList_, allLocations_, currentMode_, result,
                               location, search>>
           ELSE GuiStep([seen EXCEPT !.selectedStart_ = loc,
                                     !.selectedEnd_ = Null,
                                     !.pathCalculated_ = FALSE])

\* lines 144-186: a right click on the marker of loc
RightClick(loc) ==
    /\ GuiRunning
    /\ loc \in Range(allLocations_)
    /\ LET seen == [gui EXCEPT !.event = Event("other", TRUE)]
           vias == gui.viaLocations_
           hits == {i \in 1..Len(vias) : vias[i] = loc}
           after == IF hits # {}
                    THEN RemoveAt(vias, CHOOSE i \in hits : \A j \in hits : i <= j)
                    ELSE Append(vias, loc)
           next == [seen EXCEPT !.viaLocations_ = after]
       IN  IF gui.uiMode_ # "Navigation" THEN GuiStep(seen)
           ELSE IF loc = gui.selectedStart_ \/ loc = gui.selectedEnd_ THEN GuiStep(seen)
           ELSE IF gui.selectedStart_ # Null /\ gui.selectedEnd_ # Null
           THEN /\ GuiFindPath(next, TRUE, TRUE)
                /\ UNCHANGED <<adjacencyList_, allLocations_, currentMode_, result,
                               location, search>>
           ELSE GuiStep(next)

\* lines 225-243: the W key and the C key
ModeKey(mode) ==
    /\ GuiRunning
    /\ LET next == [gui EXCEPT !.event = Event("other", TRUE)]
       IN  /\ currentMode_' = setNavigationMode(currentMode_, mode).mode
           /\ IF gui.pathCalculated_
              THEN GuiFindPath(next, gui.viaLocations_ # <<>>, FALSE)
              ELSE gui' = next /\ UNCHANGED <<lastPath_, found>>
    /\ UNCHANGED <<adjacencyList_, allLocations_, result, location, search>>

\* lines 245-247: the Escape key
Escape ==
    /\ GuiRunning
    /\ GuiStep([gui EXCEPT !.selectedStart_ = Null, !.selectedEnd_ = Null,
                           !.pathCalculated_ = FALSE,
                           !.event = Event("other", TRUE)])

\* render(): drawInfoPanel rebuilds the rectangles of the via buttons, one
\* row for each via in Navigation mode and none in Explore mode, and sets
\* the rectangle of the toggle button
Render ==
    /\ GuiRunning
    /\ GuiStep([gui EXCEPT
           !.viaUpRects_ = IF gui.uiMode_ = "Navigation" THEN Len(gui.viaLocations_)
                           ELSE 0,
           !.toggleButtonScreenRect_ = TRUE,
           !.event = Event("other", TRUE)])

NextGui ==
    \/ BuildCampus
    \/ ToggleButton
    \/ \E mode \in {"Explore", "Navigation"} : UiModeKey(mode)
    \/ \E button \in ViaButtons, vi \in 0..(NumLocations - 1) : ViaButton(button, vi)
    \/ \E loc \in Locations : LeftClick(loc)
    \/ \E loc \in Locations : RightClick(loc)
    \/ \E mode \in Modes : ModeKey(mode)
    \/ Escape
    \/ Render

SpecGui == Init /\ [][NextGui]_vars

NoDuplicates(s) == \A i \in 1..Len(s), j \in 1..Len(s) : s[i] = s[j] => i = j

\* C29: after any sequence of GUI events the via list holds no location
\* twice and holds neither the selected start nor the selected end, and no
\* findPath call of the GUI has a via equal to its start or its end.
C29_ViasApartFromEndpoints ==
    gui.status = "running" =>
        /\ NoDuplicates(gui.viaLocations_)
        /\ \A i \in 1..Len(gui.viaLocations_) :
               /\ gui.viaLocations_[i] # gui.selectedStart_
               /\ gui.viaLocations_[i] # gui.selectedEnd_
        /\ gui.event.called = "findPathVia" =>
               \A i \in 1..Len(gui.viaLocations_) :
                   gui.viaLocations_[i] \notin {gui.selectedStart_, gui.selectedEnd_}

\* C30: when handleEvents handles a click on the up, down or remove button
\* of via entry vi, vi is an index of the via list as it is at that moment.
C30_ViaIndexValid ==
    gui.event.op \in ViaButtons => gui.event.valid

=============================================================================
